---- MODULE Spec2Model ----
(***************************************************************************)
(* Borrow/lend ledger frontend: the transaction store (TransactionProvider *)
(* with fetchTransactions / addTransaction), the remote API it talks to    *)
(* (services/api.ts) and the balance aggregation (the summaries useMemo).  *)
(***************************************************************************)
EXTENDS Integers, Sequences, FiniteSets, TLC

(***************************************************************************)
(* Bounds of the model.                                                    *)
(***************************************************************************)
\* number of store operations (mount load, explicit loads, creates) in a run
MaxOps == 3
\* number of records the remote holds before the application starts
MaxInitRemote == 1
\* longest transaction sequence handed to the aggregation on its own
MaxLen == 3
\* largest amount, in units of the smallest amount
MaxAmount == 7
\* significand width of the scaled-down binary floating point format that
\* stands for the IEEE-754 binary64 `number` (53 bits) of the program
Precision == 3

(***************************************************************************)
(* Strings: a string is a sequence of characters, so that trim() is        *)
(* computed and not assumed.                                               *)
(***************************************************************************)
SP == " "

RECURSIVE TrimStart(_)
TrimStart(s) ==
  IF s = <<>> THEN <<>>
  ELSE IF Head(s) = SP THEN TrimStart(Tail(s)) ELSE s

RECURSIVE TrimEnd(_)
TrimEnd(s) ==
  IF s = <<>> THEN <<>>
  ELSE IF s[Len(s)] = SP THEN TrimEnd(SubSeq(s, 1, Len(s) - 1)) ELSE s

\* String.prototype.trim
Trim(s) == TrimEnd(TrimStart(s))

\* String.prototype.toLowerCase, on the letters of the model
LowerChar(c) ==
  CASE c = "A" -> "a"
    [] c = "B" -> "b"
    [] c = "C" -> "c"
    [] OTHER -> c

ToLower(s) == [i \in 1..Len(s) |-> LowerChar(s[i])]

\* the person names that occur in the model
NameA == <<"A">>
NameB == <<"B">>
NameC == <<"C">>
NameApad == <<" ", "A">>
Names == {NameA, NameB, NameC, NameApad}
\* the same letter in lower case, and with trailing whitespace
NameLower == <<"a">>
NameApadEnd == <<"A", " ">>
\* names that are also properties every object inherits from Object.prototype
NameCtor == <<"c", "o", "n", "s", "t", "r", "u", "c", "t", "o", "r">>
NameProto == <<"_", "_", "p", "r", "o", "t", "o", "_", "_">>
InheritedKeys == {NameCtor, NameProto}
KeyNames == Names \cup {NameLower, NameApadEnd, NameCtor, NameProto}

(***************************************************************************)
(* Numbers: amount is a JavaScript number, a binary floating point value.  *)
(* Every sum is rounded to the nearest representable value, ties to even.  *)
(* The format is scaled down to Precision significand bits; values are     *)
(* integers counted in units of the smallest amount.                       *)
(***************************************************************************)
RECURSIVE Pow2(_)
Pow2(n) == IF n = 0 THEN 1 ELSE 2 * Pow2(n - 1)

\* the exponent e >= 0 with m < 2^(Precision + e), smallest such
RECURSIVE ExpOf(_, _)
ExpOf(m, e) == IF m < Pow2(Precision + e) THEN e ELSE ExpOf(m, e + 1)

\* round a non-negative integer to Precision significant bits, ties to even
RoundMag(m) ==
  LET e == ExpOf(m, 0)
      u == Pow2(e)
      q == m \div u
      r == m % u
  IN IF e = 0 THEN m
     ELSE IF 2 * r > u \/ (2 * r = u /\ q % 2 = 1) THEN (q + 1) * u
     ELSE q * u

RoundFloat(x) == IF x < 0 THEN -RoundMag(-x) ELSE RoundMag(x)

\* NaN, the result of arithmetic on a value that is no number; it is written
\* as a value no sum of the model reaches
NaN == 999999

\* the floating point x + y and x - y
FAdd(x, y) == IF x = NaN \/ y = NaN THEN NaN ELSE RoundFloat(x + y)
FSub(x, y) == IF x = NaN \/ y = NaN THEN NaN ELSE RoundFloat(x - y)

\* the amounts a transaction can carry: positive and representable
\* the decimal digits
Digits == {"0", "1", "2", "3", "4", "5", "6", "7", "8", "9"}

DigitVal(c) ==
  CASE c = "0" -> 0 [] c = "1" -> 1 [] c = "2" -> 2 [] c = "3" -> 3
    [] c = "4" -> 4 [] c = "5" -> 5 [] c = "6" -> 6 [] c = "7" -> 7
    [] c = "8" -> 8 [] c = "9" -> 9

\* the longest prefix of s made of digits
RECURSIVE DigitsPrefix(_)
DigitsPrefix(s) ==
  IF s # <<>> /\ Head(s) \in Digits THEN <<Head(s)>> \o DigitsPrefix(Tail(s))
  ELSE <<>>

\* the number a sequence of digits denotes
RECURSIVE DigitsValue(_)
DigitsValue(d) ==
  IF d = <<>> THEN 0
  ELSE 10 * DigitsValue(SubSeq(d, 1, Len(d) - 1)) + DigitVal(d[Len(d)])

\* parseFloat: skips leading whitespace, reads an optional sign and the
\* longest numeric prefix, ignores whatever follows it; NaN when there is
\* no numeric prefix (the texts of the model have no fraction or exponent)
ParseFloat(s) ==
  LET t == TrimStart(s)
      signed == t # <<>> /\ Head(t) \in {"-", "+"}
      d == DigitsPrefix(IF signed THEN Tail(t) ELSE t)
  IN IF d = <<>> THEN NaN
     ELSE IF signed /\ Head(t) = "-" THEN 0 - DigitsValue(d)
     ELSE DigitsValue(d)

\* a valid floating-point number of HTML: an optional "-" and digits, and
\* nothing else
IsValidFloat(s) ==
  LET u == IF s # <<>> /\ Head(s) = "-" THEN Tail(s) ELSE s
  IN u # <<>> /\ DigitsPrefix(u) = u

\* faulty variant: the amount box is a text box, its value is what was typed
SanitizeNone(s) == s

\* the value of an <input type="number">: the empty string unless the text
\* typed into it is a valid floating-point number
Sanitize(s) == IF IsValidFloat(s) THEN s ELSE <<>>

Amounts == {a \in 1..MaxAmount : RoundFloat(a) = a}

(***************************************************************************)
(* Records.                                                                *)
(***************************************************************************)
NoId == 0

\* TransactionPayload {lender, borrower, amount}
Payload(l, b, a) == [lender |-> l, borrower |-> b, amount |-> a]
NoPayload == Payload(<<>>, <<>>, 0)

\* Transaction {id, lender, borrower, amount} as the remote returns it
Transaction(i, p) ==
  [id |-> i, lender |-> p.lender, borrower |-> p.borrower, amount |-> p.amount]

\* the payloads submitted to the store in the model
Payloads ==
  { Payload(NameA, NameB, 2), Payload(NameApad, NameC, 7) }

(***************************************************************************)
(* Balance aggregation: the summaries useMemo.                             *)
(***************************************************************************)
EmptySummary == [k \in {} |-> 0]

\* tempSummary is a plain object: reading a key it does not own yields the
\* property inherited from Object.prototype, if there is one, else undefined
IsUndefined(s, name) == name \notin DOMAIN s /\ name \notin InheritedKeys

\* the number the arithmetic sees when it reads tempSummary[name]: an
\* inherited property (a function, an object) converts to NaN
ReadNumber(s, name) == IF name \in DOMAIN s THEN s[name] ELSE NaN

\* tempSummary[name] = v; the __proto__ setter ignores a value that is no object
Assign(s, name, v) ==
  IF name = NameProto THEN s
  ELSE [k \in DOMAIN s \cup {name} |-> IF k = name THEN v ELSE s[k]]

\* `if (tempSummary[name] === undefined) tempSummary[name] = 0`
EnsureKey(s, name) ==
  IF IsUndefined(s, name) THEN Assign(s, name, 0) ELSE s

\* the body of transactions.forEach
AggStep(s, tx) ==
  LET lender == Trim(tx.lender)
      borrower == Trim(tx.borrower)
      amount == tx.amount
      s1 == EnsureKey(s, lender)
      s2 == EnsureKey(s1, borrower)
      s3 == Assign(s2, lender, FSub(ReadNumber(s2, lender), amount))
  IN Assign(s3, borrower, FAdd(ReadNumber(s3, borrower), amount))

RECURSIVE AggFrom(_, _)
AggFrom(s, txs) ==
  IF txs = <<>> THEN s ELSE AggFrom(AggStep(s, Head(txs)), Tail(txs))

\* faulty variant: the accumulator starts with an entry for the empty name
AggregateSeeded(txs) == AggFrom(EnsureKey(EmptySummary, <<>>), txs)

\* const tempSummary = {}; transactions.forEach(...); return tempSummary
Aggregate(txs) == AggFrom(EmptySummary, txs)

(***************************************************************************)
(* State.                                                                  *)
(***************************************************************************)
VARIABLES
  transactions,  \* useState<Transaction[]>([])
  isLoading,     \* useState<boolean>(false)
  error,         \* useState<string | null>(null)
  summaries,     \* the memoised summaries of the rendered context value
  mounted,       \* whether the initial-load effect has run
  remote,        \* the collection the remote API holds
  ops,           \* the store operations: kind, position, request and response
  nOps,          \* number of operations invoked so far
  getLog,        \* the bodies of the GET /transactions responses sent so far
  last,          \* the last step taken: event, operation, collection before it
  aggInput,      \* the sequence handed to the aggregation on its own
  aggOut,        \* its result
  form,          \* TransactionForm: lender, borrower, amount, errors, isSubmitting
  amountText,    \* the text typed into the amount box
  submit         \* outcome of the last submission of the unchanged form, and
                 \* the create the form awaits

storeVars == <<transactions, isLoading, error, summaries, mounted, remote, ops,
               nOps, getLog, last>>
aggVars == <<aggInput, aggOut>>
formVars == <<form, amountText, submit>>
vars == <<transactions, isLoading, error, summaries, mounted, remote, ops,
          nOps, getLog, last, aggInput, aggOut, form, amountText, submit>>

NoError == "null"
\* api.ts: throw new Error('Failed to fetch transactions from the server.')
FetchFailed == "Failed to fetch transactions from the server."
\* api.ts: throw new Error('Failed to create the transaction on the server.')
CreateFailed == "Failed to create the transaction on the server."

\* err.response of an error that carries no response, or one whose body
\* has no message: the message reads as falsy
NoResponse == [data |-> [message |-> ""]]

\* what makes a request fail: no answer at all, or an answer that is not 2xx
Causes == {"transport", "status"}

\* the error axios rejects with
AxiosError(cause) ==
  IF cause = "transport"
  THEN [response |-> NoResponse, message |-> "Network Error"]
  ELSE [response |-> [data |-> [message |-> "Internal Server Error"]],
        message |-> "Request failed with status code 500"]

\* faulty variant: getTransactions lets the error of axios through
GetTransactionsRethrow(cause) == AxiosError(cause)

\* the catch block of getTransactions: whatever was caught is logged, and a
\* new Error with the fixed message is thrown
GetTransactionsError(cause) == [response |-> NoResponse, message |-> FetchFailed]

\* the catch block of createTransaction
CreateTransactionError(cause) == [response |-> NoResponse, message |-> CreateFailed]

\* err.response?.data?.message || err.message || fallback
ErrorMessage(err, fallback) ==
  IF err.response.data.message # "" THEN err.response.data.message
  ELSE IF err.message # "" THEN err.message
  ELSE fallback

Ops == 1..MaxOps

\* FormErrors with no key set
NoFieldError == "undefined"
NoErrors ==
  [lender |-> NoFieldError, borrower |-> NoFieldError, amount |-> NoFieldError,
   form |-> NoFieldError]

\* useState('') three times, useState<FormErrors>({}), useState(false)
InitForm ==
  [lender |-> <<>>, borrower |-> <<>>, amount |-> <<>>, errors |-> NoErrors,
   isSubmitting |-> FALSE]

NoSubmit == [result |-> "none", op |-> 0]

IdleOp ==
  [kind |-> "none", pc |-> "idle", payload |-> NoPayload, resp |-> <<>>,
   created |-> NoId, gets |-> 0, posts |-> 0, postOk |-> FALSE,
   outcome |-> "pending", afterFailure |-> FALSE]

\* a finished operation leaves its slot; its last record is kept in `last`;
\* the promise of fetchTransactions and of addTransaction is always
\* fulfilled: each catches what its body throws and throws nothing itself
DoneOp == [IdleOp EXCEPT !.pc = "done", !.outcome = "fulfilled"]

Event(e, p, r) == [ev |-> e, op |-> p, before |-> transactions, rec |-> r]

\* the record of operation p at its completion
Finished(p) == [ops[p] EXCEPT !.pc = "done", !.outcome = "fulfilled"]

\* the remote numbers its records 1, 2, ... in the order it stored them
Stored(ps) == [i \in 1..Len(ps) |-> Transaction(i, ps[i])]

\* the records the remote holds when the application starts: the first n
\* of a fixed sequence of earlier submissions, n <= MaxInitRemote
SeedPayload(i) ==
  IF i % 2 = 1 THEN Payload(NameB, NameA, 7) ELSE Payload(NameA, NameC, 2)

InitRemotes ==
  { Stored([i \in 1..n |-> SeedPayload(i)]) : n \in 0..MaxInitRemote }

Init ==
  /\ transactions = <<>>
  /\ isLoading = FALSE
  /\ error = NoError
  /\ summaries = Aggregate(<<>>)
  /\ mounted = FALSE
  /\ remote \in InitRemotes
  /\ ops = [p \in Ops |-> IdleOp]
  /\ nOps = 0
  /\ getLog = {}
  /\ last = [ev |-> "init", op |-> 0, before |-> <<>>, rec |-> IdleOp]
  /\ aggInput = <<>>
  /\ aggOut = Aggregate(<<>>)
  /\ form = InitForm
  /\ amountText = <<>>
  /\ submit = NoSubmit

(***************************************************************************)
(* fetchTransactions                                                       *)
(***************************************************************************)
\* faulty variant: the error message of an earlier failure is kept
FetchBeginKeepError(p, k) ==
  /\ isLoading' = TRUE
  /\ error' = error
  /\ ops' = [ops EXCEPT ![p] = [@ EXCEPT !.kind = k, !.pc = "get",
                                          !.gets = @ + 1,
                                          !.afterFailure = (error # NoError)]]

\* up to the await: setIsLoading(true); setError(null); GET is sent; the
\* operation remembers whether it cleared the message of a failure
FetchBegin(p, k) ==
  /\ isLoading' = TRUE
  /\ error' = NoError
  /\ ops' = [ops EXCEPT ![p] = [@ EXCEPT !.kind = k, !.pc = "get",
                                          !.gets = @ + 1,
                                          !.afterFailure = (error # NoError)]]

\* faulty variant: the provider mounts without the initial-load effect
MountNoLoad ==
  /\ ~mounted
  /\ mounted' = TRUE
  /\ last' = Event("mounted", 0, IdleOp)
  /\ UNCHANGED <<transactions, isLoading, error, summaries, remote, ops, nOps,
                 getLog>>
  /\ UNCHANGED aggVars
  /\ UNCHANGED formVars

\* useEffect(() => { fetchTransactions(); }, [fetchTransactions])
Mount ==
  /\ ~mounted
  /\ nOps < MaxOps
  /\ mounted' = TRUE
  /\ nOps' = nOps + 1
  /\ FetchBegin(nOps + 1, "load")
  /\ last' = Event("loadBegin", nOps + 1, IdleOp)
  /\ UNCHANGED <<transactions, summaries, remote, getLog>>
  /\ UNCHANGED aggVars
  /\ UNCHANGED formVars

\* a collaborator calls fetchTransactions() of the context value
Load ==
  /\ mounted
  /\ nOps < MaxOps
  /\ nOps' = nOps + 1
  /\ FetchBegin(nOps + 1, "load")
  /\ last' = Event("loadBegin", nOps + 1, IdleOp)
  /\ UNCHANGED <<transactions, summaries, mounted, remote, getLog>>
  /\ UNCHANGED aggVars
  /\ UNCHANGED formVars

\* the remote answers GET /transactions with its whole collection
ServerGet(p) ==
  /\ ops[p].pc = "get"
  /\ ops' = [ops EXCEPT ![p] = [@ EXCEPT !.pc = "getOk", !.resp = remote]]
  /\ getLog' = getLog \cup {remote}
  /\ last' = Event("serverGet", p, IdleOp)
  /\ UNCHANGED <<transactions, isLoading, error, summaries, mounted, remote, nOps>>
  /\ UNCHANGED aggVars
  /\ UNCHANGED formVars

\* faulty variant: the response is appended to the collection instead of replacing it
FetchResolveMerge(p) ==
  /\ ops[p].pc = "getOk"
  /\ transactions' = transactions \o ops[p].resp
  /\ summaries' = Aggregate(transactions')
  /\ isLoading' = FALSE
  /\ ops' = [ops EXCEPT ![p] = DoneOp]
  /\ last' = Event(IF ops[p].kind = "create" THEN "createOk" ELSE "loadOk", p, Finished(p))
  /\ UNCHANGED <<error, mounted, remote, nOps, getLog>>
  /\ UNCHANGED aggVars
  /\ UNCHANGED formVars

\* faulty variant: the summaries are memoised once and not recomputed
FetchResolveStale(p) ==
  /\ ops[p].pc = "getOk"
  /\ transactions' = ops[p].resp
  /\ summaries' = summaries
  /\ isLoading' = FALSE
  /\ ops' = [ops EXCEPT ![p] = DoneOp]
  /\ last' = Event(IF ops[p].kind = "create" THEN "createOk" ELSE "loadOk", p, Finished(p))
  /\ UNCHANGED <<error, mounted, remote, nOps, getLog>>
  /\ UNCHANGED aggVars
  /\ UNCHANGED formVars

\* faulty variant: a response shorter than the collection is dropped
FetchResolveNewest(p) ==
  /\ ops[p].pc = "getOk"
  /\ transactions' = IF Len(ops[p].resp) < Len(transactions) THEN transactions
                     ELSE ops[p].resp
  /\ summaries' = Aggregate(transactions')
  /\ isLoading' = FALSE
  /\ ops' = [ops EXCEPT ![p] = DoneOp]
  /\ last' = Event(IF ops[p].kind = "create" THEN "createOk" ELSE "loadOk", p, Finished(p))
  /\ UNCHANGED <<error, mounted, remote, nOps, getLog>>
  /\ UNCHANGED aggVars
  /\ UNCHANGED formVars

\* faulty variant: a response is dropped when an operation invoked later
\* has already completed
FetchResolveOrdered(p) ==
  /\ ops[p].pc = "getOk"
  /\ transactions' = IF \E q \in Ops : q > p /\ ops[q].pc = "done" THEN transactions
                     ELSE ops[p].resp
  /\ summaries' = Aggregate(transactions')
  /\ isLoading' = FALSE
  /\ ops' = [ops EXCEPT ![p] = DoneOp]
  /\ last' = Event(IF ops[p].kind = "create" THEN "createOk" ELSE "loadOk", p, Finished(p))
  /\ UNCHANGED <<error, mounted, remote, nOps, getLog>>
  /\ UNCHANGED aggVars
  /\ UNCHANGED formVars

\* the await resolves: setTransactions(fetched); finally setIsLoading(false)
FetchResolve(p) ==
  /\ ops[p].pc = "getOk"
  /\ transactions' = ops[p].resp
  /\ summaries' = Aggregate(ops[p].resp)
  /\ isLoading' = FALSE
  /\ ops' = [ops EXCEPT ![p] = DoneOp]
  /\ last' = Event(IF ops[p].kind = "create" THEN "createOk" ELSE "loadOk", p, Finished(p))
  /\ UNCHANGED <<error, mounted, remote, nOps, getLog>>
  /\ UNCHANGED aggVars
  /\ UNCHANGED formVars

\* faulty variant: the catch block keeps the collection
FetchRejectKeep(p) ==
  /\ ops[p].pc = "get"
  /\ error' = FetchFailed
  /\ isLoading' = FALSE
  /\ ops' = [ops EXCEPT ![p] = DoneOp]
  /\ last' = Event(IF ops[p].kind = "create" THEN "resyncFailed" ELSE "loadFailed", p, Finished(p))
  /\ UNCHANGED <<transactions, summaries, mounted, remote, nOps, getLog>>
  /\ UNCHANGED aggVars
  /\ UNCHANGED formVars

\* faulty variant: a failed GET is sent again
FetchRejectRetry(p) ==
  /\ ops[p].pc = "get"
  /\ error' = FetchFailed
  /\ isLoading' = TRUE
  /\ ops' = [ops EXCEPT ![p] = [@ EXCEPT !.gets = @ + 1]]
  /\ last' = Event("loadRetry", p, IdleOp)
  /\ UNCHANGED <<transactions, summaries, mounted, remote, nOps, getLog>>
  /\ UNCHANGED aggVars
  /\ UNCHANGED formVars

\* faulty variant: the failure of a resync reaches the catch block of
\* addTransaction
FetchRejectToCaller(p) ==
  /\ ops[p].pc = "get"
  /\ error' = IF ops[p].kind = "create" THEN CreateFailed ELSE FetchFailed
  /\ transactions' = IF ops[p].kind = "create" THEN transactions ELSE <<>>
  /\ summaries' = Aggregate(transactions')
  /\ isLoading' = FALSE
  /\ ops' = [ops EXCEPT ![p] = DoneOp]
  /\ last' = Event(IF ops[p].kind = "create" THEN "resyncFailed" ELSE "loadFailed", p, Finished(p))
  /\ UNCHANGED <<mounted, remote, nOps, getLog>>
  /\ UNCHANGED aggVars
  /\ UNCHANGED formVars

\* getTransactions throws (transport failure or non-2xx): the catch block,
\* then finally
FetchReject(p) ==
  /\ ops[p].pc = "get"
  /\ \E cause \in Causes :
       error' = ErrorMessage(GetTransactionsError(cause),
                             "Failed to load transactions. Please try again later.")
  /\ transactions' = <<>>
  /\ summaries' = Aggregate(<<>>)
  /\ isLoading' = FALSE
  /\ ops' = [ops EXCEPT ![p] = DoneOp]
  /\ last' = Event(IF ops[p].kind = "create" THEN "resyncFailed" ELSE "loadFailed", p, Finished(p))
  /\ UNCHANGED <<mounted, remote, nOps, getLog>>
  /\ UNCHANGED aggVars
  /\ UNCHANGED formVars

(***************************************************************************)
(* addTransaction                                                          *)
(***************************************************************************)
\* faulty variant: the resync GET is sent together with the POST, not after it
AddTransactionEager(d) ==
  /\ mounted
  /\ nOps < MaxOps
  /\ nOps' = nOps + 1
  /\ isLoading' = TRUE
  /\ error' = NoError
  /\ ops' = [ops EXCEPT ![nOps + 1] = [@ EXCEPT !.kind = "create", !.pc = "post",
                                                 !.payload = d, !.posts = @ + 1,
                                                 !.gets = @ + 1]]
  /\ last' = Event("createBegin", nOps + 1, IdleOp)
  /\ UNCHANGED <<transactions, summaries, mounted, remote, getLog>>
  /\ UNCHANGED aggVars
  /\ UNCHANGED formVars

\* faulty variant: addTransaction clears the error before it sends the POST
AddBeginClearError(d) ==
  /\ mounted
  /\ nOps < MaxOps
  /\ nOps' = nOps + 1
  /\ isLoading' = TRUE
  /\ error' = NoError
  /\ ops' = [ops EXCEPT ![nOps + 1] = [@ EXCEPT !.kind = "create", !.pc = "post",
                                                 !.payload = d, !.posts = @ + 1]]
  /\ last' = Event("createBegin", nOps + 1, IdleOp)
  /\ UNCHANGED <<transactions, summaries, mounted, remote, getLog>>

\* up to the first await: setIsLoading(true); POST is sent
AddBegin(d) ==
  /\ mounted
  /\ nOps < MaxOps
  /\ nOps' = nOps + 1
  /\ isLoading' = TRUE
  /\ ops' = [ops EXCEPT ![nOps + 1] = [@ EXCEPT !.kind = "create", !.pc = "post",
                                                 !.payload = d, !.posts = @ + 1]]
  /\ last' = Event("createBegin", nOps + 1, IdleOp)
  /\ UNCHANGED <<transactions, error, summaries, mounted, remote, getLog>>

\* a collaborator calls addTransaction(d) of the context value
AddTransaction(d) ==
  /\ AddBegin(d)
  /\ UNCHANGED aggVars
  /\ UNCHANGED formVars

\* faulty variant: the remote stores every record under the same id
ServerPostSameId(p) ==
  /\ ops[p].pc = "post"
  /\ remote' = Append(remote, Transaction(1, ops[p].payload))
  /\ ops' = [ops EXCEPT ![p] = [@ EXCEPT !.pc = "postOk", !.created = 1]]
  /\ last' = Event("serverPost", p, IdleOp)
  /\ UNCHANGED <<transactions, isLoading, error, summaries, mounted, nOps, getLog>>
  /\ UNCHANGED aggVars
  /\ UNCHANGED formVars

\* the remote stores the record under a fresh id and answers 2xx
ServerPost(p) ==
  /\ ops[p].pc = "post"
  /\ remote' = Append(remote, Transaction(Len(remote) + 1, ops[p].payload))
  /\ ops' = [ops EXCEPT ![p] = [@ EXCEPT !.pc = "postOk",
                                          !.created = Len(remote) + 1]]
  /\ last' = Event("serverPost", p, IdleOp)
  /\ UNCHANGED <<transactions, isLoading, error, summaries, mounted, nOps, getLog>>
  /\ UNCHANGED aggVars
  /\ UNCHANGED formVars

\* faulty variant: the submitted payload is merged into the collection locally and
\* no resync is made
AddResolveOptimistic(p) ==
  /\ ops[p].pc = "postOk"
  /\ transactions' = Append(transactions, Transaction(NoId, ops[p].payload))
  /\ summaries' = Aggregate(transactions')
  /\ isLoading' = FALSE
  /\ ops' = [ops EXCEPT ![p] = DoneOp]
  /\ last' = Event("createOk", p, [Finished(p) EXCEPT !.postOk = TRUE])
  /\ UNCHANGED <<error, mounted, remote, nOps, getLog>>
  /\ UNCHANGED aggVars
  /\ UNCHANGED formVars

\* await createTransaction resolves: await fetchTransactions()
AddResolve(p) ==
  /\ ops[p].pc = "postOk"
  /\ isLoading' = TRUE
  /\ error' = NoError
  /\ ops' = [ops EXCEPT ![p] = [@ EXCEPT !.pc = "get", !.postOk = TRUE,
                                          !.gets = @ + 1]]
  /\ last' = Event("resyncBegin", p, IdleOp)
  /\ UNCHANGED <<transactions, summaries, mounted, remote, nOps, getLog>>
  /\ UNCHANGED aggVars
  /\ UNCHANGED formVars

\* faulty variant: the catch block clears the collection as the one of
\* fetchTransactions does
AddRejectClear(p) ==
  /\ ops[p].pc = "post"
  /\ error' = CreateFailed
  /\ transactions' = <<>>
  /\ summaries' = Aggregate(<<>>)
  /\ isLoading' = FALSE
  /\ ops' = [ops EXCEPT ![p] = DoneOp]
  /\ last' = Event("createFailed", p, Finished(p))
  /\ UNCHANGED <<mounted, remote, nOps, getLog>>
  /\ UNCHANGED aggVars
  /\ UNCHANGED formVars

\* createTransaction throws: the catch block of addTransaction
AddReject(p) ==
  /\ ops[p].pc = "post"
  /\ \E cause \in Causes :
       error' = ErrorMessage(CreateTransactionError(cause),
                             "Failed to add transaction. Please try again.")
  /\ isLoading' = FALSE
  /\ ops' = [ops EXCEPT ![p] = DoneOp]
  /\ last' = Event("createFailed", p, Finished(p))
  /\ UNCHANGED <<transactions, summaries, mounted, remote, nOps, getLog>>
  /\ UNCHANGED aggVars
  /\ UNCHANGED formVars

(***************************************************************************)
(* TransactionForm                                                         *)
(***************************************************************************)
\* what a collaborator types into the lender box, into the borrower box
\* and into the amount box
LenderTexts == {<<SP>>, NameApad}
BorrowerTexts == {<<SP>>, NameLower, NameB}
AmountTexts == {<<"0">>, <<"-", "5">>, <<"5", "x">>, <<"2">>}

\* faulty variant: the names are compared as typed, letter case included
ValidateFormCaseSensitive(f) ==
  LET trimmedLender == Trim(f.lender)
      trimmedBorrower == Trim(f.borrower)
      parsedAmount == ParseFloat(f.amount)
  IN [lender |-> IF trimmedLender = <<>> THEN "Lender name is required."
                 ELSE NoFieldError,
      borrower |->
        IF trimmedLender # <<>> /\ trimmedBorrower # <<>>
           /\ trimmedLender = trimmedBorrower
        THEN "Borrower cannot be the same as the lender."
        ELSE IF trimmedBorrower = <<>> THEN "Borrower name is required."
        ELSE NoFieldError,
      amount |->
        IF f.amount = <<>> THEN "Amount is required."
        ELSE IF parsedAmount = NaN \/ parsedAmount <= 0
        THEN "Please enter a valid positive amount."
        ELSE NoFieldError,
      form |-> NoFieldError]

\* validateForm: the errors of the current fields
ValidateForm(f) ==
  LET trimmedLender == Trim(f.lender)
      trimmedBorrower == Trim(f.borrower)
      parsedAmount == ParseFloat(f.amount)
  IN [lender |-> IF trimmedLender = <<>> THEN "Lender name is required."
                 ELSE NoFieldError,
      borrower |->
        IF trimmedLender # <<>> /\ trimmedBorrower # <<>>
           /\ ToLower(trimmedLender) = ToLower(trimmedBorrower)
        THEN "Borrower cannot be the same as the lender."
        ELSE IF trimmedBorrower = <<>> THEN "Borrower name is required."
        ELSE NoFieldError,
      amount |->
        IF f.amount = <<>> THEN "Amount is required."
        ELSE IF parsedAmount = NaN \/ parsedAmount <= 0
        THEN "Please enter a valid positive amount."
        ELSE NoFieldError,
      form |-> NoFieldError]

\* handleChange of the lender or the borrower box (enabled unless submitting)
HandleChangeName(fieldName, value) ==
  /\ ~form.isSubmitting
  /\ form' = [form EXCEPT ![fieldName] = value,
                          !.errors = [@ EXCEPT ![fieldName] = NoFieldError,
                                               !.form = NoFieldError]]
  /\ submit' = NoSubmit
  /\ UNCHANGED amountText
  /\ UNCHANGED storeVars
  /\ UNCHANGED aggVars

\* handleChange of the amount box: e.target.value is the sanitized text
HandleChangeAmount(text) ==
  /\ ~form.isSubmitting
  /\ amountText' = text
  /\ form' = [form EXCEPT !.amount = Sanitize(text),
                          !.errors = [@ EXCEPT !.amount = NoFieldError,
                                               !.form = NoFieldError]]
  /\ submit' = NoSubmit
  /\ UNCHANGED storeVars
  /\ UNCHANGED aggVars

\* faulty variant: addTransaction is called whatever validateForm returns
HandleSubmitUnchecked ==
  /\ ~form.isSubmitting
  /\ LET validationErrors == ValidateForm(form)
     IN /\ AddBegin(Payload(Trim(form.lender), Trim(form.borrower),
                            ParseFloat(form.amount)))
        /\ form' = [form EXCEPT !.errors = validationErrors, !.isSubmitting = TRUE]
        /\ submit' = [result |-> IF validationErrors # NoErrors THEN "rejected"
                                 ELSE "accepted",
                      op |-> nOps + 1]
  /\ UNCHANGED amountText
  /\ UNCHANGED aggVars

\* faulty variant: the names go into the payload as they were typed
HandleSubmitUntrimmed ==
  /\ ~form.isSubmitting
  /\ LET validationErrors == ValidateForm(form)
     IN IF validationErrors # NoErrors
        THEN /\ form' = [form EXCEPT !.errors = validationErrors]
             /\ submit' = [result |-> "rejected", op |-> 0]
             /\ UNCHANGED storeVars
        ELSE /\ AddBegin(Payload(form.lender, form.borrower,
                                 ParseFloat(form.amount)))
             /\ form' = [form EXCEPT !.errors = NoErrors, !.isSubmitting = TRUE]
             /\ submit' = [result |-> "accepted", op |-> nOps + 1]
  /\ UNCHANGED amountText
  /\ UNCHANGED aggVars

\* handleSubmit up to its await (the submit button is enabled unless
\* submitting)
HandleSubmit ==
  /\ ~form.isSubmitting
  /\ LET validationErrors == ValidateForm(form)
     IN IF validationErrors # NoErrors
        THEN /\ form' = [form EXCEPT !.errors = validationErrors]
             /\ submit' = [result |-> "rejected", op |-> 0]
             /\ UNCHANGED storeVars
        ELSE /\ AddBegin(Payload(Trim(form.lender), Trim(form.borrower),
                                 ParseFloat(form.amount)))
             /\ form' = [form EXCEPT !.errors = NoErrors, !.isSubmitting = TRUE]
             /\ submit' = [result |-> "accepted", op |-> nOps + 1]
  /\ UNCHANGED amountText
  /\ UNCHANGED aggVars

\* faulty variant: handleSubmit has no finally block
HandleSubmitSettleNoFinally ==
  /\ form.isSubmitting
  /\ submit.op # 0
  /\ ops[submit.op].pc = "done"
  /\ form' = [form EXCEPT !.lender = <<>>, !.borrower = <<>>, !.amount = <<>>]
  /\ amountText' = <<>>
  /\ submit' = NoSubmit
  /\ UNCHANGED storeVars
  /\ UNCHANGED aggVars

\* handleSubmit after its await: addTransaction has returned (it catches
\* its own errors and never rejects), the fields are reset; finally
\* setIsSubmitting(false)
HandleSubmitSettle ==
  /\ form.isSubmitting
  /\ submit.op # 0
  /\ ops[submit.op].pc = "done"
  /\ form' = [form EXCEPT !.lender = <<>>, !.borrower = <<>>, !.amount = <<>>,
                          !.isSubmitting = FALSE]
  /\ amountText' = <<>>
  /\ submit' = NoSubmit
  /\ UNCHANGED storeVars
  /\ UNCHANGED aggVars

NextForm ==
  \/ Mount
  \/ \E value \in LenderTexts : HandleChangeName("lender", value)
  \/ \E value \in BorrowerTexts : HandleChangeName("borrower", value)
  \/ \E text \in AmountTexts : HandleChangeAmount(text)
  \/ HandleSubmit
  \/ HandleSubmitSettle
  \/ \E p \in Ops : ServerGet(p)
  \/ \E p \in Ops : FetchResolve(p)
  \/ \E p \in Ops : FetchReject(p)
  \/ \E p \in Ops : ServerPost(p)
  \/ \E p \in Ops : AddResolve(p)
  \/ \E p \in Ops : AddReject(p)

SpecForm == Init /\ [][NextForm]_vars

Next ==
  \/ Mount
  \/ Load
  \/ \E d \in Payloads : AddTransaction(d)
  \/ \E p \in Ops : ServerGet(p)
  \/ \E p \in Ops : FetchResolve(p)
  \/ \E p \in Ops : FetchReject(p)
  \/ \E p \in Ops : ServerPost(p)
  \/ \E p \in Ops : AddResolve(p)
  \/ \E p \in Ops : AddReject(p)

Spec == Init /\ [][Next]_vars

(***************************************************************************)
(* The aggregation on its own: the collection grows by one valid           *)
(* transaction at a time and the summaries are recomputed from it.         *)
(***************************************************************************)
\* the valid transactions: both names non-empty, different persons
ValidTxs ==
  { Transaction(1, Payload(l, b, a)) : l \in Names, b \in Names, a \in Amounts }

AggAppend(tx) ==
  /\ Len(aggInput) < MaxLen
  /\ Trim(tx.lender) # <<>>
  /\ Trim(tx.borrower) # <<>>
  /\ ToLower(Trim(tx.lender)) # ToLower(Trim(tx.borrower))
  /\ aggInput' = Append(aggInput, tx)
  /\ aggOut' = Aggregate(aggInput')
  /\ UNCHANGED storeVars
  /\ UNCHANGED formVars

NextAgg == \E tx \in ValidTxs : AggAppend(tx)

InitAgg == Init /\ remote = <<>>

SpecAgg == InitAgg /\ [][NextAgg]_vars

\* the same with names that differ by letter case or surrounding whitespace,
\* at the smallest and the largest amount
KeyTxs ==
  { Transaction(1, Payload(l, b, a)) :
      l \in KeyNames, b \in KeyNames, a \in {1, MaxAmount} }

NextKeys == \E tx \in KeyTxs : AggAppend(tx)

SpecKeys == InitAgg /\ [][NextKeys]_vars

(***************************************************************************)
(* The views: what the pages and SummaryDisplay render from the context    *)
(* value.                                                                  *)
(***************************************************************************)
\* `if (error)`: null and the empty string are falsy
Truthy(e) == e # NoError /\ e # ""

\* faulty variant: the error is looked at before the busy flag
RenderErrorFirst(loading, err, content) ==
  IF Truthy(err) THEN [view |-> "error", shows |-> err]
  ELSE IF loading THEN [view |-> "loading", shows |-> ""]
  ELSE [view |-> "content", shows |-> content]

\* renderContent of LedgerPage and of SummaryPage
RenderContent(loading, err, content) ==
  IF loading THEN [view |-> "loading", shows |-> ""]
  ELSE IF Truthy(err) THEN [view |-> "error", shows |-> err]
  ELSE [view |-> "content", shows |-> content]

LedgerPage == RenderContent(isLoading, error, transactions)
SummaryPage == RenderContent(isLoading, error, summaries)

\* x > y and x < y of numbers: false when one of them is NaN
Greater(x, y) == x # NaN /\ y # NaN /\ x > y
Less(x, y) == x # NaN /\ y # NaN /\ x < y

\* Math.abs
Abs(x) == IF x = NaN THEN NaN ELSE IF x < 0 THEN 0 - x ELSE x

\* the amounts of the model count half cents
CentUnits == 2

\* x.toFixed(2) of x >= 0: the number of cents nearest to x, the larger one
\* when two are equally near
ToFixed2(x) == (x + (CentUnits \div 2)) \div CentUnits

\* faulty variant: a balance of 0 is listed under "Who Owes You"
SummaryDisplayZeroOwes(s) ==
  IF DOMAIN s = {}
  THEN [message |-> TRUE, owedToUser |-> {}, owedByUser |-> {}]
  ELSE [message |-> FALSE,
        owedToUser |-> { <<n, ToFixed2(s[n])>> :
                           n \in { k \in DOMAIN s : ~Less(s[k], 0) } },
        owedByUser |-> { <<n, ToFixed2(Abs(s[n]))>> :
                           n \in { k \in DOMAIN s : Less(s[k], 0) } }]

\* SummaryDisplay: the empty-state message, or the entries with balance > 0
\* ("Who Owes You") and those with balance < 0 ("Who You Owe"), each with
\* the name and the amount shown
SummaryDisplay(s) ==
  IF DOMAIN s = {}
  THEN [message |-> TRUE, owedToUser |-> {}, owedByUser |-> {}]
  ELSE [message |-> FALSE,
        owedToUser |-> { <<n, ToFixed2(s[n])>> :
                           n \in { k \in DOMAIN s : Greater(s[k], 0) } },
        owedByUser |-> { <<n, ToFixed2(Abs(s[n]))>> :
                           n \in { k \in DOMAIN s : Less(s[k], 0) } }]

\* the transactions the display is exercised with: a debt and its
\* repayment, a half cent, a self-loan, a name no object owns as a key
DisplayTxs ==
  { Transaction(1, Payload(NameA, NameB, 2)),
    Transaction(2, Payload(NameB, NameA, 2)),
    Transaction(3, Payload(NameA, NameC, 1)),
    Transaction(4, Payload(NameC, NameC, 2)),
    Transaction(5, Payload(NameCtor, NameB, 2)) }

\* faulty variant: the computation writes its input into the collection
RecomputeInPlace(tx) ==
  /\ Len(aggInput) < MaxLen
  /\ aggInput' = Append(aggInput, tx)
  /\ aggOut' = Aggregate(aggInput')
  /\ transactions' = aggInput'
  /\ UNCHANGED <<isLoading, error, summaries, mounted, remote, ops, nOps,
                 getLog, last>>
  /\ UNCHANGED formVars

\* the memo is recomputed from a collection one transaction longer, valid
\* or not, and the views are rendered from the result
Recompute(tx) ==
  /\ Len(aggInput) < MaxLen
  /\ aggInput' = Append(aggInput, tx)
  /\ aggOut' = Aggregate(aggInput')
  /\ UNCHANGED storeVars
  /\ UNCHANGED formVars

NextDisplay == \E tx \in DisplayTxs : Recompute(tx)

SpecDisplay == InitAgg /\ [][NextDisplay]_vars

(***************************************************************************)
(* Helpers of the properties.                                              *)
(***************************************************************************)
InFlight(p) == ops[p].pc \in {"get", "getOk", "post", "postOk"}

Holds(txs, i, d) == \E k \in 1..Len(txs) : txs[k] = Transaction(i, d)

\* what holds of the record o of a create at every position of the create
CreateOrdered(o) ==
  /\ o.posts = 1
  /\ o.pc \in {"post", "postOk"} => o.gets = 0
  /\ o.gets = (IF o.postOk THEN 1 ELSE 0)
  /\ o.pc \in {"get", "getOk"} => o.postOk
  /\ o.gets > 0 => o.created # NoId
  /\ o.pc = "getOk" => Holds(o.resp, o.created, o.payload)

IsPrefix(a, b) == Len(a) <= Len(b) /\ a = SubSeq(b, 1, Len(a))

RECURSIVE SumValues(_, _)
SumValues(s, keys) ==
  IF keys = {} THEN 0
  ELSE LET k == CHOOSE x \in keys : TRUE
       IN s[k] + SumValues(s, keys \ {k})

RECURSIVE SumWhere(_, _, _)
SumWhere(txs, n, role) ==
  IF txs = <<>> THEN 0
  ELSE (IF Trim(Head(txs)[role]) = n THEN Head(txs).amount ELSE 0)
       + SumWhere(Tail(txs), n, role)

PersonsOf(txs) ==
  { Trim(txs[i].lender) : i \in 1..Len(txs) } \cup
  { Trim(txs[i].borrower) : i \in 1..Len(txs) }

Reorderings(txs) ==
  { [i \in 1..Len(txs) |-> txs[f[i]]] : f \in Permutations(1..Len(txs)) }

(***************************************************************************)
(* C1                                                                      *)
(***************************************************************************)
\* C1 (as claimed): in the state in which a create has completed with its
\* POST and its resync GET both successful, the collection equals the
\* collection the remote holds, i.e. what a load would return now.
C1_ReadAfterWrite ==
  last.ev = "createOk" => transactions = remote

\* C1 (amended): in the state in which a create has completed with its POST
\* and its resync GET both successful, the collection is exactly the body
\* of that create's resync GET response: a snapshot of the remote taken
\* after the create's write, so it holds the created record under its
\* remote-assigned id, every record of it carries a remote id (no local
\* payload merged in), and it is a prefix of what the remote holds now:
\* equal to it unless a later write reached the remote after the snapshot.
C1_ResyncSnapshot ==
  last.ev = "createOk" =>
    LET o == last.rec
    IN /\ transactions = o.resp
       /\ Holds(transactions, o.created, o.payload)
       /\ \A k \in 1..Len(transactions) : transactions[k].id # NoId
       /\ IsPrefix(transactions, remote)
       /\ (Len(remote) = Len(o.resp) => transactions = remote)

C1_Witness ==
  /\ last.ev = "createOk"
  /\ last.before # <<>>
  /\ transactions = remote
  /\ Len(transactions) = Len(last.before) + 1

(***************************************************************************)
(* C2                                                                      *)
(***************************************************************************)
\* C2: in every state the collection is empty or is the complete body of
\* one GET /transactions response, records and order as sent.
C2_WholeResponse ==
  transactions = <<>> \/ transactions \in getLog

C2_Witness ==
  /\ last.ev \in {"loadOk", "createOk"}
  /\ last.before # <<>>
  /\ transactions # <<>>
  /\ transactions # last.before

(***************************************************************************)
(* C3                                                                      *)
(***************************************************************************)
\* C3: in the state in which a load whose GET failed has completed (an
\* explicit or mount-time load, or the resync load of a create), the
\* collection is empty and an error message is present, whatever the
\* collection was before.
C3_FailedLoadClears ==
  last.ev \in {"loadFailed", "resyncFailed"} =>
    transactions = <<>> /\ error # NoError

C3_Witness ==
  /\ last.ev = "loadFailed"
  /\ last.before # <<>>
  /\ transactions = <<>>

(***************************************************************************)
(* C4                                                                      *)
(***************************************************************************)
\* C4: no step of a create whose POST fails writes the collection: in the
\* state after its invocation and in the state after its failure the
\* collection is what it was before the step, after the failure an error
\* message is present, and that create has sent no GET.
C4_FailedCreateFrame ==
  /\ last.ev = "createBegin" => transactions = last.before
  /\ last.ev = "createFailed" =>
       /\ transactions = last.before
       /\ error # NoError
       /\ last.rec.gets = 0

C4_Witness ==
  /\ last.ev = "createFailed"
  /\ transactions # <<>>

(***************************************************************************)
(* C5                                                                      *)
(***************************************************************************)
\* C5: a create sends its resync GET only after its POST has completed
\* successfully, and then exactly one: while the POST is in flight no GET
\* of the create has been sent, a create whose POST failed has sent none,
\* a create whose POST succeeded has sent exactly one, and the remote had
\* stored the record before that GET was sent, so its response holds it.
C5_ResyncAfterWrite ==
  /\ \A p \in Ops : ops[p].kind = "create" => CreateOrdered(ops[p])
  /\ last.ev \in {"createOk", "resyncFailed", "createFailed"} =>
       /\ CreateOrdered(last.rec)
       /\ last.rec.gets = (IF last.ev = "createFailed" THEN 0 ELSE 1)

C5_Witness ==
  /\ last.ev = "createOk"
  /\ last.rec.postOk
  /\ last.rec.gets = 1
  /\ Holds(transactions, last.rec.created, last.rec.payload)

(***************************************************************************)
(* C6                                                                      *)
(***************************************************************************)
\* C6 (as claimed): isLoading is true in every state in which some load's
\* GET is in flight or some create is in progress.
C6_BusyForDuration ==
  (\E p \in Ops : InFlight(p)) => isLoading

(***************************************************************************)
(* C7                                                                      *)
(***************************************************************************)
\* C7 (as claimed): the values of the mapping aggregate returns for a
\* sequence of valid transactions sum to zero.
C7_Conservation ==
  SumValues(aggOut, DOMAIN aggOut) = 0

(***************************************************************************)
(* C8                                                                      *)
(***************************************************************************)
\* C8 (as claimed): aggregate's value for every person n is the sum of the
\* amounts n borrowed minus the sum of the amounts n lent.
C8_NetBalance ==
  /\ DOMAIN aggOut = PersonsOf(aggInput)
  /\ \A n \in DOMAIN aggOut :
       aggOut[n] = SumWhere(aggInput, n, "borrower") - SumWhere(aggInput, n, "lender")

(***************************************************************************)
(* C9                                                                      *)
(***************************************************************************)
\* C9 (as claimed): aggregate returns the same mapping for every
\* reordering of its input.
C9_OrderInvariant ==
  \A q \in Reorderings(aggInput) : Aggregate(q) = aggOut

(***************************************************************************)
(* C10                                                                     *)
(***************************************************************************)
\* C10: aggregate of the empty sequence is the empty mapping, and the
\* store's summaries are the empty mapping whenever its collection is
\* empty (initially, while the first load runs, after a failed load).
C10_EmptySummaries ==
  /\ Aggregate(<<>>) = EmptySummary
  /\ transactions = <<>> => summaries = EmptySummary /\ DOMAIN summaries = {}

C10_Witness ==
  /\ last.ev = "loadFailed"
  /\ last.before # <<>>
  /\ transactions = <<>>
  /\ DOMAIN summaries = {}

(***************************************************************************)
(* C11                                                                     *)
(***************************************************************************)
\* C11 (as claimed): the keys of aggregate's result are exactly the trimmed
\* lender and borrower names of the input: a name with surrounding
\* whitespace is no key of its own, names that differ by letter case are
\* different keys, every person of the input is a key, and a key starts
\* from 0 (after a single transaction the lender is at minus the amount and
\* the borrower at the amount).
C11_KeySet ==
  /\ DOMAIN aggOut = PersonsOf(aggInput)
  /\ NameApad \notin DOMAIN aggOut
  /\ NameApadEnd \notin DOMAIN aggOut
  /\ Len(aggInput) = 1 =>
       /\ aggOut[Trim(aggInput[1].lender)] = -aggInput[1].amount
       /\ aggOut[Trim(aggInput[1].borrower)] = aggInput[1].amount

(***************************************************************************)
(* C12                                                                     *)
(***************************************************************************)
\* the names as the claims put it: one of them empty after trimming, or the
\* two equal after trimming when letter case is ignored
NamesRejectable(l, b) ==
  \/ Trim(l) = <<>>
  \/ Trim(b) = <<>>
  \/ ToLower(Trim(l)) = ToLower(Trim(b))

\* C12: when the form was submitted with a lender empty after trimming, a
\* borrower empty after trimming, or a trimmed lender equal to the trimmed
\* borrower up to letter case, the submission was rejected with an error on
\* a name field; when both names are non-empty and differ up to letter
\* case, neither name field has an error.
C12_NameValidation ==
  submit.result # "none" =>
    IF NamesRejectable(form.lender, form.borrower)
    THEN /\ submit.result = "rejected"
         /\ form.errors.lender # NoFieldError \/ form.errors.borrower # NoFieldError
    ELSE /\ form.errors.lender = NoFieldError
         /\ form.errors.borrower = NoFieldError

C12_Witness ==
  /\ submit.result = "rejected"
  /\ form.lender = NameApad
  /\ form.borrower = NameLower
  /\ form.errors.borrower = "Borrower cannot be the same as the lender."
  /\ form.errors.lender = NoFieldError
  /\ form.errors.amount = NoFieldError

(***************************************************************************)
(* C13                                                                     *)
(***************************************************************************)
\* the whole text is a number greater than 0
DenotesPositive(text) ==
  /\ text # <<>>
  /\ \A i \in 1..Len(text) : text[i] \in Digits
  /\ DigitsValue(text) > 0

\* C13: when the form was submitted, the amount field has no error exactly
\* when the whole text typed into the amount box denotes a number greater
\* than 0; an empty, non-numeric, zero or negative amount text made the
\* submission be rejected.
C13_AmountValidation ==
  submit.result # "none" =>
    /\ form.errors.amount = NoFieldError <=> DenotesPositive(amountText)
    /\ ~DenotesPositive(amountText) => submit.result = "rejected"

C13_Witness ==
  /\ submit.result = "rejected"
  /\ amountText = <<"5", "x">>
  /\ form.errors.amount # NoFieldError
  /\ form.errors.lender = NoFieldError
  /\ form.errors.borrower = NoFieldError

(***************************************************************************)
(* C14                                                                     *)
(***************************************************************************)
\* C14: a step in which a submission is rejected by validation leaves the
\* store as it was: no operation is started, no request is sent or
\* answered, collection, busy flag, error message and summaries are
\* unchanged; the step only sets the form's field errors (no general
\* form error, the fields and the submitting flag kept).
C14_RejectedStaysLocal ==
  [][(submit'.result = "rejected" /\ submit.result # "rejected") =>
       /\ UNCHANGED <<transactions, isLoading, error, summaries, mounted,
                      remote, ops, nOps, getLog>>
       /\ form'.errors # NoErrors
       /\ form'.errors.form = NoFieldError
       /\ form' = [form EXCEPT !.errors = form'.errors]
       /\ ~form'.isSubmitting]_vars

C14_Witness ==
  /\ submit.result = "rejected"
  /\ \E p \in Ops : InFlight(p) /\ ops[p].kind = "load"
  /\ transactions # <<>>
  /\ form.errors.amount = "Amount is required."

(***************************************************************************)
(* C15                                                                     *)
(***************************************************************************)
\* C15: the error of the store is always absent, the fixed fetch-failure
\* message or the fixed create-failure message: whichever way a request
\* fails (no answer, or an answer that is not 2xx) the message is the same,
\* a failed load or resync leaves the fetch-failure message and a failed
\* create the create-failure message; and the promise of a load or of a
\* create is never rejected, it is fulfilled when the operation finishes.
C15_UniformErrors ==
  /\ error \in {NoError, FetchFailed, CreateFailed}
  /\ \A cause \in Causes :
       /\ ErrorMessage(GetTransactionsError(cause), "fallback") = FetchFailed
       /\ ErrorMessage(CreateTransactionError(cause), "fallback") = CreateFailed
  /\ last.ev \in {"loadFailed", "resyncFailed"} => error = FetchFailed
  /\ last.ev = "createFailed" => error = CreateFailed
  /\ \A p \in Ops : ops[p].outcome = (IF ops[p].pc = "done" THEN "fulfilled" ELSE "pending")
  /\ last.ev \in {"loadOk", "createOk", "loadFailed", "resyncFailed", "createFailed"}
       => last.rec.outcome = "fulfilled"

C15_Witness ==
  /\ last.ev = "resyncFailed"
  /\ error = FetchFailed
  /\ last.rec.outcome = "fulfilled"
  /\ \E p \in Ops : ops[p].kind = "create" /\ ops[p].pc = "post"

(***************************************************************************)
(* C16                                                                     *)
(***************************************************************************)
\* the requests an operation has sent, by its kind
RequestsOf(o) ==
  CASE o.kind = "load" -> o.posts = 0 /\ o.gets = 1
    [] o.kind = "create" -> o.posts = 1 /\ o.gets = (IF o.postOk THEN 1 ELSE 0)
    [] OTHER -> o.posts = 0 /\ o.gets = 0

\* C16: no request is sent twice: a load (at mount or explicit) sends one
\* GET, a create sends one POST and, only once that POST has succeeded, one
\* resync GET; this holds of every operation in flight and of every
\* operation at its completion, and an operation whose GET or POST failed
\* is over: it has sent exactly those requests and sends no more.
C16_NoRetry ==
  /\ \A p \in Ops : RequestsOf(ops[p])
  /\ RequestsOf(last.rec)
  /\ last.ev \in {"loadFailed", "resyncFailed", "createFailed"} =>
       /\ ops[last.op] = DoneOp
       /\ last.rec.gets = (IF last.ev = "createFailed" THEN 0 ELSE 1)
       /\ last.rec.posts = (IF last.ev = "loadFailed" THEN 0 ELSE 1)

C16_Witness ==
  /\ last.ev = "resyncFailed"
  /\ last.rec.gets = 1
  /\ last.rec.posts = 1
  /\ \E p \in Ops : ops[p].kind = "load" /\ ops[p].pc = "get"

(***************************************************************************)
(* C17                                                                     *)
(***************************************************************************)
\* C17 (as claimed): whenever no request is in flight the busy flag is
\* false; and a load that was started while the message of a failed load or
\* create was shown and that succeeds installs the collection the remote
\* returned and leaves the error message absent.
C17_Recovers ==
  /\ (\A p \in Ops : ~InFlight(p)) => ~isLoading
  /\ (last.ev = "loadOk" /\ last.rec.afterFailure) =>
       /\ transactions = last.rec.resp
       /\ error = NoError

\* C17 (amended): whenever no request is in flight the busy flag is false,
\* and load and create can be invoked again whatever failed before; a load
\* clears the error message when it starts, and when it succeeds it
\* installs the body of its GET response (a snapshot of the remote's
\* collection) and does not touch the error message; the message goes from
\* absent to present only in a step in which a load, a resync or a create
\* fails.  So the error is absent after a later load succeeded unless
\* another operation failed while that load was in flight, whose message
\* then stays.
C17_RecoversUnlessConcurrentFailure ==
  [][/\ (\A p \in Ops : ~InFlight(p)') => ~isLoading'
     /\ (mounted /\ nOps < MaxOps) =>
          /\ ENABLED Load
          /\ ENABLED (\E d \in Payloads : AddTransaction(d))
     /\ last'.ev = "loadBegin" => error' = NoError
     /\ last'.ev = "loadOk" =>
          /\ transactions' = last'.rec.resp
          /\ last'.rec.resp \in getLog
          /\ IsPrefix(last'.rec.resp, remote')
          /\ error' = error
     /\ (error = NoError /\ error' # NoError) =>
          last'.ev \in {"loadFailed", "resyncFailed", "createFailed"}]_vars

C17_Witness ==
  /\ last.ev = "loadOk"
  /\ last.rec.afterFailure
  /\ transactions = last.rec.resp
  /\ transactions # <<>>
  /\ error = CreateFailed
  /\ \A p \in Ops : ~InFlight(p)
  /\ ~isLoading

(***************************************************************************)
(* C18                                                                     *)
(***************************************************************************)
\* C18: in every state the summaries the store exposes are the aggregate
\* of the collection it exposes in that state.
C18_SummariesDerived ==
  summaries = Aggregate(transactions)

C18_Witness ==
  /\ last.ev = "createOk"
  /\ last.before # <<>>
  /\ transactions # last.before
  /\ summaries # Aggregate(last.before)
  /\ DOMAIN summaries = PersonsOf(transactions)

C20_LastResyncWins ==
  (last.ev = "createOk" /\ \A p \in Ops : ~InFlight(p)) =>
    /\ transactions = last.rec.resp
    /\ IsPrefix(transactions, remote)
    /\ last.rec.created <= Len(transactions)
    /\ \A k \in (Len(transactions) + 1)..Len(remote) :
         /\ remote[k].id > last.rec.created
         /\ \A i \in 1..Len(transactions) : transactions[i].id # remote[k].id

C20_Witness ==
  /\ last.ev = "createOk"
  /\ \A p \in Ops : ~InFlight(p)
  /\ nOps = MaxOps
  /\ transactions = last.rec.resp
  /\ Len(remote) = Len(transactions) + 1
  /\ last.rec.created = Len(transactions)
  /\ remote[Len(remote)].id = last.rec.created + 1
  /\ \A k \in 1..Len(transactions) : transactions[k].id # remote[Len(remote)].id

(***************************************************************************)
(* C21                                                                     *)
(***************************************************************************)
\* C21 (as claimed): in the step in which the form leaves its submitting
\* state right after the create it awaited has finished, the fields are
\* reset when the transaction was added (the POST succeeded); when the POST
\* failed the fields keep the entered values and the form shows a general
\* submission error.
C21_ResetOnlyOnSuccess ==
  [][(form.isSubmitting /\ ~form'.isSubmitting /\ last.op = submit.op) =>
       IF last.ev = "createFailed"
       THEN /\ form'.lender = form.lender
            /\ form'.borrower = form.borrower
            /\ form'.amount = form.amount
            /\ form'.errors.form # NoFieldError
       ELSE /\ form'.lender = <<>>
            /\ form'.borrower = <<>>
            /\ form'.amount = <<>>
            /\ form'.errors.form = NoFieldError]_vars

EntriesOf(section, n) == { e \in section : e[1] = n }

\* the sections partition the persons by the sign of their balance:
\* positive balances once under "Who Owes You", negative ones once under
\* "Who You Owe", nobody in both, a zero balance in neither, and the
\* empty-state message for a map without entries
PartitionedBySign(s, d) ==
  /\ \A n \in DOMAIN s :
       /\ Cardinality(EntriesOf(d.owedToUser, n)) = (IF Greater(s[n], 0) THEN 1 ELSE 0)
       /\ Cardinality(EntriesOf(d.owedByUser, n)) = (IF Less(s[n], 0) THEN 1 ELSE 0)
       /\ s[n] = 0 => EntriesOf(d.owedToUser \cup d.owedByUser, n) = {}
  /\ \A e \in d.owedToUser \cup d.owedByUser : e[1] \in DOMAIN s
  /\ DOMAIN s = {} => d.message

\* C25 (as claimed): the display partitions the summaries by sign and shows
\* each positive balance as it is and each negative balance as its
\* absolute value.
C25_PartitionExact ==
  LET d == SummaryDisplay(aggOut)
  IN /\ PartitionedBySign(aggOut, d)
     /\ \A e \in d.owedToUser : e[2] * CentUnits = aggOut[e[1]]
     /\ \A e \in d.owedByUser : e[2] * CentUnits = 0 - aggOut[e[1]]

\* C25 (amended): the display partitions the summaries by sign and shows
\* each positive balance, and the absolute value of each negative balance,
\* rounded to the nearest cent (two decimals): the amount shown differs
\* from the balance by at most half a cent, so a balance below half a cent
\* is listed with 0.00.
C25_PartitionRounded ==
  LET d == SummaryDisplay(aggOut)
  IN /\ PartitionedBySign(aggOut, d)
     /\ \A e \in d.owedToUser :
          2 * Abs(e[2] * CentUnits - aggOut[e[1]]) <= CentUnits
     /\ \A e \in d.owedByUser :
          2 * Abs(e[2] * CentUnits + aggOut[e[1]]) <= CentUnits

C25_Witness ==
  /\ \E n \in DOMAIN aggOut : aggOut[n] = 0
  /\ \E n \in DOMAIN aggOut : aggOut[n] = 1
  /\ \E n \in DOMAIN aggOut : aggOut[n] = 0 - 1
  /\ Cardinality(SummaryDisplay(aggOut).owedToUser) = 1
  /\ Cardinality(SummaryDisplay(aggOut).owedByUser) = 1

(***************************************************************************)
(* C23                                                                     *)
(***************************************************************************)
\* the store as it is created, and the one load the mount effect issues:
\* before the provider has mounted nothing has happened, the collection is
\* empty, the busy flag false and the error absent; once it has mounted the
\* first operation is a load that has sent one GET
CreatedEmptyThenLoads ==
  /\ ~mounted =>
       /\ nOps = 0
       /\ transactions = <<>>
       /\ isLoading = FALSE
       /\ error = NoError
  /\ mounted =>
       /\ nOps >= 1
       /\ ops[1].pc # "idle"
       /\ InFlight(1) => ops[1].kind = "load" /\ ops[1].gets = 1 /\ ops[1].posts = 0

C24_ViewPriority ==
  /\ LedgerPage.view = SummaryPage.view
  /\ isLoading => LedgerPage.view = "loading"
  /\ (~isLoading /\ error # NoError) =>
       /\ LedgerPage = [view |-> "error", shows |-> error]
       /\ SummaryPage = [view |-> "error", shows |-> error]
  /\ LedgerPage.view = "content" <=> (~isLoading /\ error = NoError)
  /\ LedgerPage.view = "content" => LedgerPage.shows = transactions
  /\ SummaryPage.view = "content" => SummaryPage.shows = summaries

C24_Witness ==
  /\ isLoading
  /\ error = CreateFailed
  /\ transactions # <<>>
  /\ LedgerPage.view = "loading"

(***************************************************************************)
(* C26                                                                     *)
(***************************************************************************)
\* C26: responses are applied as they arrive: a step in which a load or a
\* resync succeeds makes the collection the body of its GET response,
\* whatever was invoked or has completed before; a step in which one fails
\* makes it empty; every other step leaves it as it is.  So the collection
\* is always the outcome of the load that completed last.  The witness is
\* the overlap of the claim: the mount-time load completes after a create's
\* resync and its older response replaces a collection that held the
\* created record.
C26_ArrivalOrder ==
  [][IF last'.ev \in {"loadOk", "createOk"} /\ last' # last
     THEN transactions' = last'.rec.resp
     ELSE IF last'.ev \in {"loadFailed", "resyncFailed"} /\ last' # last
     THEN transactions' = <<>>
     ELSE transactions' = transactions]_vars

C26_Witness ==
  /\ last.ev = "loadOk"
  /\ last.op = 1
  /\ \A p \in Ops : ~InFlight(p)
  /\ last.before = remote
  /\ transactions = last.rec.resp
  /\ Len(transactions) < Len(last.before)
  /\ IsPrefix(transactions, last.before)

(***************************************************************************)
(* C27                                                                     *)
(***************************************************************************)
\* C27: in the state in which a create has completed with its POST
\* successful and its resync GET failed, the create's promise is fulfilled,
\* not rejected; the collection is empty although the remote holds the
\* created record and every record that was shown before; the error is the
\* fetch-failure message and the busy flag is false.
C27_ResyncFailure ==
  last.ev = "resyncFailed" =>
    /\ last.rec.kind = "create"
    /\ last.rec.postOk
    /\ last.rec.outcome = "fulfilled"
    /\ transactions = <<>>
    /\ summaries = EmptySummary
    /\ Holds(remote, last.rec.created, last.rec.payload)
    /\ IsPrefix(last.before, remote)
    /\ error = FetchFailed
    /\ isLoading = FALSE

C27_Witness ==
  /\ last.ev = "resyncFailed"
  /\ last.before # <<>>
  /\ transactions = <<>>
  /\ Len(remote) > Len(last.before)
  /\ error = FetchFailed

(***************************************************************************)
(* C28                                                                     *)
(***************************************************************************)
\* C28: the error message goes from present to absent only in a step in
\* which a load begins (at mount, explicit, or the resync after a
\* successful POST); the step that invokes a create leaves the message as
\* it is; the step in which a create fails sets the create-failure
\* message, whatever the message was; and in every step that begins no
\* load a message that is present stays present.
C28_ClearedOnlyByLoad ==
  [][/\ (error # NoError /\ error' = NoError) =>
          last'.ev \in {"loadBegin", "resyncBegin"}
     /\ (last'.ev \in {"loadBegin", "resyncBegin"} /\ last' # last) =>
          error' = NoError
     /\ (last'.ev = "createBegin" /\ last' # last) => error' = error
     /\ (last'.ev = "createFailed" /\ last' # last) => error' = CreateFailed
     /\ (error # NoError /\ last'.ev \notin {"loadBegin", "resyncBegin"}) =>
          error' # NoError]_vars

C28_Witness ==
  /\ last.ev = "createFailed"
  /\ error = CreateFailed
  /\ transactions = <<>>
  /\ remote # <<>>
  /\ \A p \in Ops : ~InFlight(p)
  /\ nOps = 2

(***************************************************************************)
(* C29                                                                     *)
(***************************************************************************)
\* the creation-time constraints of a payload
PayloadOk(d) ==
  /\ d.lender # <<>>
  /\ d.borrower # <<>>
  /\ Trim(d.lender) = d.lender
  /\ Trim(d.borrower) = d.borrower
  /\ ToLower(d.lender) # ToLower(d.borrower)
  /\ d.amount # NaN
  /\ d.amount > 0

\* C29: the payload of every create the form has started, and every record
\* the remote has stored from a POST, has non-empty names without
\* surrounding whitespace that differ when letter case is ignored, and an
\* amount that is a number greater than 0.
C29_PayloadConstraints ==
  /\ \A p \in Ops : ops[p].kind = "create" => PayloadOk(ops[p].payload)
  /\ last.rec.kind = "create" => PayloadOk(last.rec.payload)
  /\ \A k \in 1..Len(remote) :
       PayloadOk(Payload(remote[k].lender, remote[k].borrower, remote[k].amount))

C29_Witness ==
  /\ form.lender = NameApad
  /\ form.isSubmitting
  /\ submit.op # 0
  /\ ops[submit.op].pc = "postOk"
  /\ ops[submit.op].payload = Payload(NameA, NameB, 2)
  /\ remote[Len(remote)] = Transaction(Len(remote), Payload(NameA, NameB, 2))

(***************************************************************************)
(* C30                                                                     *)
(***************************************************************************)
\* the creates in flight
CreatesInFlight == { p \in Ops : InFlight(p) /\ ops[p].kind = "create" }

\* C30: the form is submitting exactly when its last submission passed
\* validation and the create that submission started has not yet been
\* settled by the form; that create is in flight or has just finished, and
\* once it has finished, by success or by failure, the form can leave the
\* submitting state; while the form is submitting neither a change of a
\* field nor a submission is possible, so every create in flight is the
\* one the form awaits and there is at most one.
C30_SubmittingWindow ==
  /\ form.isSubmitting <=> (submit.result = "accepted" /\ submit.op # 0)
  /\ form.isSubmitting =>
       /\ InFlight(submit.op) \/ ops[submit.op].pc = "done"
       /\ ops[submit.op].pc = "done" => ENABLED HandleSubmitSettle
       /\ ~ENABLED HandleSubmit
       /\ ~ENABLED (\E value \in LenderTexts : HandleChangeName("lender", value))
       /\ ~ENABLED (\E value \in BorrowerTexts : HandleChangeName("borrower", value))
       /\ ~ENABLED (\E text \in AmountTexts : HandleChangeAmount(text))
  /\ \A p \in CreatesInFlight : form.isSubmitting /\ submit.op = p
  /\ Cardinality(CreatesInFlight) <= 1

C30_Witness ==
  /\ form.isSubmitting
  /\ ops[submit.op].pc = "done"
  /\ last.ev = "createFailed"
  /\ last.op = submit.op
  /\ nOps = MaxOps

====
